---------------------------- MODULE Spec2Model ----------------------------
(***************************************************************************)
(* Model of klippy/extras/aaaaaa.py: the ADS1100 acquisition engine        *)
(* (class MCU_ADS1100) and the bit-banged two-wire bus master              *)
(* (class SoftwareI2C).                                                    *)
(*                                                                         *)
(* Conventions                                                             *)
(*  - Python floats are modelled as exact rationals [num, den] with        *)
(*    den > 0 (Rat).  Every float the code produces in the modelled        *)
(*    range is either a power of two (1/rate) or compared only through     *)
(*    < and >, so no rounding is involved in the modelled cases.           *)
(*  - Reactor times (eventtime, waketime, receive time, report_time) are   *)
(*    integers in units of 1/TicksPerSecond seconds.                       *)
(*  - Python None is modelled by the string "None" or by 0 for object      *)
(*    references (instances are numbered from 1).                          *)
(***************************************************************************)
EXTENDS Integers, Sequences, FiniteSets, TLC

VARIABLES
    \* ---- MCU_ADS1100 fields (names of the source without the leading _)
    phase,              \* lifecycle position of the engine
    gain,
    registrations,         \* what __init__ registrations with the printer
    last_value, last_time,
    value, state, error_count,
    rate, norm,
    sample_time, sample_count, minval, maxval, range_check_count,
    callback, report_time, last_callback_time,
    \* ---- reactor timer and the locals of the running _handle_timer
    waketime, eventtime, response,
    \* ---- observable effects of the engine
    shutdown_called,    \* invoke_shutdown was called in the latest tick
    cb_called,          \* the callback was invoked in the latest tick
    cb_args,            \* arguments of the latest callback invocation
    config_writes,      \* payloads of i2c_write issued by the engine
    \* ---- history of the acquisition, kept for the properties
    nticks,             \* ticks that returned so far
    retried,            \* the latest tick saw a short response
    window,             \* raw readings of the ticks since the last N-th tick
    last_window,        \* raw readings of the latest N ticks ending at an N-th
    last_window_time,   \* receive time of that N-th tick
    cb_prev_time,       \* eventtime of the latest callback invocation, -1 if none
    cb_before_time,     \* eventtime of the invocation before it, -1 if none
    run_len,            \* consecutive out-of-range completed cycles so far
    run_shutdowns,      \* invoke_shutdown calls during that run
    \* ---- SoftwareI2C: the pins registry, the mcu and the instances
    pin_class,          \* scl_params['class'] of each clock pin, 0 for None
    insts,              \* the SoftwareI2C instances, in order of construction
    oid_count,          \* oids handed out by mcu.create_oid
    cq_count,           \* queues handed out by mcu.alloc_command_queue
    config_callbacks,   \* instances whose build_config the mcu will run
    config_cmds,        \* config_digital_out commands added so far
    connected,          \* the mcu has run its config callbacks
    level,              \* output level of each configured oid
    call,               \* the latest i2c_write / i2c_read call and its outcome
    sent                \* the update_digital_out commands that call sent

winVars  == << sample_time, sample_count, minval, maxval, range_check_count >>
cbVars   == << callback, report_time >>
rateVars == << rate, norm >>
accVars  == << value, state >>
resVars  == << last_value, last_time, error_count, last_callback_time >>
tickVars == << waketime, eventtime, response >>
obsVars  == << shutdown_called, cb_called, cb_args >>
histVars == << nticks, retried, window, last_window, last_window_time,
               cb_prev_time, cb_before_time, run_len, run_shutdowns >>

ctorVars == << gain, registrations >>

engineVars == << phase, ctorVars, winVars, cbVars, rateVars, accVars, resVars,
                 tickVars, obsVars, config_writes, histVars >>

busVars == << pin_class, insts, oid_count, cq_count, config_callbacks,
              config_cmds, connected, level, call, sent >>

vars == << engineVars, busVars >>

----------------------------------------------------------------------------
(* Bounds of the model *)

MaxTicks == 4           \* ticks of the sample timer that are explored
MaxCount == 2           \* largest sample_count a client configures
MaxRangeCheck == 2      \* largest range_check_count a client configures
MaxInst == 2            \* SoftwareI2C instances that are constructed
MaxMsgLen == 1          \* payload bytes of an i2c_write
MaxReadLen == 2         \* length of an i2c_read

----------------------------------------------------------------------------
(* Rationals *)

Rat(n, d) == [num |-> n, den |-> d]
RLt(a, b) == a.num * b.den < b.num * a.den

TicksPerSecond == 128
\* a duration in seconds (a rational) as reactor time units
ToUnits(r) == (TicksPerSecond * r.num) \div r.den

----------------------------------------------------------------------------
(* Module constants of the source *)

ADS1100_SAMPLE_RATE_TABLE == [r \in {8, 16, 32, 128} |->
    CASE r = 8 -> 3 [] r = 16 -> 2 [] r = 32 -> 1 [] r = 128 -> 0]
ADS1100_MAXVALUE_BY_RATE_TABLE == [r \in {8, 16, 32, 128} |->
    CASE r = 8 -> 32768 [] r = 16 -> 16384 [] r = 32 -> 8192 [] r = 128 -> 2048]
ADS1100_GAIN_TABLE == [g \in {1, 2, 4, 8} |->
    CASE g = 1 -> 0 [] g = 2 -> 1 [] g = 4 -> 2 [] g = 8 -> 3]

----------------------------------------------------------------------------
(* Inputs *)

\* requested sample periods (seconds): the constructor's 0.03, and periods
\* on both sides of and exactly on each band edge of the rate selection
SampleTimes == { Rat(3, 100), Rat(2, 1), Rat(1, 8), Rat(1, 11), Rat(1, 12),
                 Rat(1, 23), Rat(1, 24), Rat(1, 79), Rat(1, 80), Rat(1, 1000) }
\* [minval, maxval] windows: the default of setup_minmax and a narrower one
Windows == { << Rat(-1, 1), Rat(1, 1) >>, << Rat(0, 1), Rat(1, 2) >> }
\* what a client passes to setup_adc_callback: (report_time, callback)
CallbackSetups == { << 16, "client_callback" >>, << 64, "None" >> }
\* monotonic time at which the reactor first runs the timer (reactor.NOW)
StartTimes == { 64 }
\* how late after its deadline the reactor runs the timer
Lateness == { 0, 1 }
\* how long after the tick's eventtime the transport received the response
ReceiveDelays == { 1 }
\* responses of the transport to a 2-byte read
ShortResponses == { << >>, << 64 >> }
FullResponses == { << 64, 0 >>, << 255, 128 >>, << 255, 128, 64, 0 >> }

----------------------------------------------------------------------------
(* MCU_ADS1100 *)

\* struct.unpack('>h', b): big-endian signed 16-bit
Unpack_h(b) ==
    LET u == b[1] * 256 + b[2]
    IN  IF u >= 32768 THEN u - 65536 ELSE u

\* a slip: the last two bytes of the response instead of the first two
ResponseTail(r) == SubSeq(r, Len(r) - 1, Len(r))

\* response[0:2]
ResponseHead(r) == SubSeq(r, 1, 2)

\* config.getint('gain', 1, minval=1) and the membership test that follows
GainChoices == {0, 1, 2, 3, 4, 8, 16}

\* a slip: only the lower limit of getint is enforced
GainSupportedLoose(g) == g >= 1

\* the gain passes getint's minval and is a key of ADS1100_GAIN_TABLE
GainSupported(g) == g >= 1 /\ g \in DOMAIN ADS1100_GAIN_TABLE

\* what __init__ registers, all of it after the gain test
Registrations == { "chip", "query_adc", "config_callback", "ready_handler",
                   "commands" }

\* the state MCU_ADS1100.__init__ leaves for a configured gain g: the object
\* in "Idle", or "ConfigError" when the constructor raised (the fields below
\* the raise are then never assigned; they carry their first values here)
Constructed(g) ==
    /\ gain = g
    /\ phase = IF GainSupported(g) THEN "Idle" ELSE "ConfigError"
    /\ registrations = IF GainSupported(g) THEN Registrations ELSE {}
    /\ last_value = Rat(0, 1)
    /\ last_time = 0
    /\ value = 0
    /\ state = 0
    /\ error_count = 0
    /\ rate = 0
    /\ norm = 0
    /\ sample_time = Rat(3, 100)
    /\ sample_count = 15
    /\ minval = Rat(-1, 1)
    /\ maxval = Rat(1, 1)
    /\ range_check_count = 0
    /\ callback = "adc_callback"
    /\ report_time = 64
    /\ last_callback_time = 0
    /\ waketime = 0
    /\ eventtime = 0
    /\ response = << >>
    /\ shutdown_called = FALSE
    /\ cb_called = FALSE
    /\ cb_args = << >>
    /\ config_writes = << >>
    /\ nticks = 0
    /\ retried = FALSE
    /\ window = << >>
    /\ last_window = << >>
    /\ last_window_time = 0
    /\ cb_prev_time = -1
    /\ cb_before_time = -1
    /\ run_len = 0
    /\ run_shutdowns = 0

\* the state after MCU_ADS1100.__init__ with the default gain
InitADC == Constructed(1)

setup_minmax(st, sc, w, rcc) ==
    /\ phase = "Idle"
    /\ sample_time' = st
    /\ sample_count' = sc
    /\ minval' = w[1]
    /\ maxval' = w[2]
    /\ range_check_count' = rcc
    /\ UNCHANGED << phase, ctorVars, cbVars, rateVars, accVars, resVars, tickVars,
                    obsVars, config_writes, histVars >>
    /\ UNCHANGED busVars

setup_adc_callback(rt, cb) ==
    /\ phase = "Idle"
    /\ report_time' = rt
    /\ callback' = cb
    /\ UNCHANGED << phase, ctorVars, winVars, rateVars, accVars, resVars, tickVars,
                    obsVars, config_writes, histVars >>
    /\ UNCHANGED busVars

\* a slip: <= at the first band edge
SelectRateInclusive(st) ==
    LET r == Rat(st.den, st.num)
    IN  IF ~ RLt(Rat(8 + 16, 2), r) THEN 8
        ELSE IF RLt(r, Rat(16 + 32, 2)) THEN 16
        ELSE IF RLt(r, Rat(32 + 128, 2)) THEN 32
        ELSE 128

\* the rate chosen for a requested period st > 0: 1./st against the midpoints
SelectRate(st) ==
    LET r == Rat(st.den, st.num)
    IN  IF RLt(r, Rat(8 + 16, 2)) THEN 8
        ELSE IF RLt(r, Rat(16 + 32, 2)) THEN 16
        ELSE IF RLt(r, Rat(32 + 128, 2)) THEN 32
        ELSE 128

build_config ==
    /\ phase = "Idle"
    /\ phase' = "Built"
    /\ IF sample_count = 0
       THEN UNCHANGED << rate, sample_time, norm >>
       ELSE /\ rate' = SelectRate(sample_time)
            /\ sample_time' = Rat(1, rate')
            /\ norm' = ADS1100_MAXVALUE_BY_RATE_TABLE[rate']
    /\ UNCHANGED << ctorVars, sample_count, minval, maxval, range_check_count,
                    cbVars, accVars, resVars, tickVars, obsVars, config_writes,
                    histVars >>
    /\ UNCHANGED busVars

\* _handle_ready: the table lookup raises KeyError when no rate was selected
handle_ready(now) ==
    /\ phase = "Built"
    /\ IF rate \in DOMAIN ADS1100_SAMPLE_RATE_TABLE
       THEN /\ config_writes' = Append(config_writes,
                  << ADS1100_SAMPLE_RATE_TABLE[rate] * 4
                     + ADS1100_GAIN_TABLE[gain] >>)
            /\ waketime' = now
            /\ phase' = "Armed"
       ELSE /\ phase' = "KeyError"
            /\ UNCHANGED << config_writes, waketime >>
    /\ UNCHANGED << ctorVars, winVars, cbVars, rateVars, accVars, resVars,
                    eventtime, response, obsVars, histVars >>
    /\ UNCHANGED busVars

\* the reactor runs _handle_timer at or after its deadline
timer_fires(late) ==
    /\ phase = "Armed"
    /\ nticks < MaxTicks
    /\ phase' = "Reading"
    /\ eventtime' = waketime + late
    /\ shutdown_called' = FALSE
    /\ cb_called' = FALSE
    /\ retried' = FALSE
    /\ UNCHANGED << ctorVars, winVars, cbVars, rateVars, accVars, resVars,
                    waketime, response, cb_args, config_writes, nticks,
                    window, last_window, last_window_time, cb_prev_time,
                    cb_before_time, run_len, run_shutdowns >>
    /\ UNCHANGED busVars

\* a slip: a second short response in one tick is not retried
read_response_once(r) ==
    /\ phase = "Reading"
    /\ Len(r) < 2
    /\ ~ retried
    /\ response' = r
    /\ retried' = TRUE
    /\ UNCHANGED << phase, ctorVars, winVars, cbVars, rateVars, accVars,
                    resVars, waketime, eventtime, obsVars, config_writes,
                    nticks, window, last_window, last_window_time,
                    cb_prev_time, cb_before_time, run_len, run_shutdowns >>
    /\ UNCHANGED busVars

\* _read_response: one pass of the loop that ends in `continue`
read_response_short(r) ==
    /\ phase = "Reading"
    /\ Len(r) < 2
    /\ response' = r
    /\ retried' = TRUE
    /\ UNCHANGED << phase, ctorVars, winVars, cbVars, rateVars, accVars, resVars,
                    waketime, eventtime, obsVars, config_writes, nticks,
                    window, last_window, last_window_time, cb_prev_time,
                    cb_before_time, run_len, run_shutdowns >>
    /\ UNCHANGED busVars

\* self._last_value < self._minval or self._last_value > self._maxval
OutOfRange(v) == RLt(v, minval) \/ RLt(maxval, v)

\* a slip: > for >=
ShutdownDueStrict(ec) == ec > range_check_count

\* self._error_count >= self._range_check_count
ShutdownDue(ec) == ec >= range_check_count

\* a slip: the report interval is left out
CallbackDueAlways(t) == t >= last_callback_time

\* eventtime >= self._last_callback_time + self._report_time
CallbackDue(t) == t >= last_callback_time + report_time

\* a slip: the cycle closes one sample early
CycleOpenEarly(st) == st < sample_count - 1

\* a slip: <= for <
CycleOpenInclusive(st) == st <= sample_count

\* self._state < self._sample_count
CycleOpen(st) == st < sample_count

\* a slip: the period is added to the deadline, not to the time of the tick
NextWakeFromDeadline(t) == waketime + ToUnits(sample_time)

\* return eventtime + self._sample_time, at both returns of _handle_timer
NextWake(t) == t + ToUnits(sample_time)

\* _handle_timer from the pass of _read_response that returns to its end
handle_timer(r, receive_time) ==
    /\ phase = "Reading"
    /\ Len(r) >= 2
    /\ response' = r
    /\ nticks' = nticks + 1
    /\ LET raw  == Unpack_h(ResponseHead(r))
           sum  == value + raw
           st   == state + 1
           res  == Rat(sum, sample_count * norm)
           oor  == OutOfRange(res)
           ec   == IF oor THEN error_count + 1 ELSE 0
           shut == oor /\ ShutdownDue(ec)
           fire == callback # "None" /\ CallbackDue(eventtime)
           w    == Append(window, raw)
       IN  /\ IF Len(w) >= sample_count
                 THEN /\ window' = << >>
                      /\ last_window' = w
                      /\ last_window_time' = receive_time
                 ELSE /\ window' = w
                      /\ UNCHANGED << last_window, last_window_time >>
           /\ IF CycleOpen(st)
                 THEN /\ value' = sum
                      /\ state' = st
                      /\ UNCHANGED << resVars, obsVars, cb_prev_time,
                                      cb_before_time, run_len, run_shutdowns >>
                 ELSE /\ last_value' = res
                      /\ last_time' = receive_time
                      /\ state' = 0
                      /\ value' = 0
                      /\ error_count' = ec
                      /\ shutdown_called' = shut
                      /\ last_callback_time' =
                             IF fire THEN eventtime ELSE last_callback_time
                      /\ cb_called' = fire
                      /\ cb_args' =
                             IF fire THEN << receive_time, res >> ELSE cb_args
                      /\ cb_prev_time' =
                             IF fire THEN eventtime ELSE cb_prev_time
                      /\ cb_before_time' =
                             IF fire THEN cb_prev_time ELSE cb_before_time
                      /\ run_len' = IF oor THEN run_len + 1 ELSE 0
                      /\ run_shutdowns' =
                             IF oor
                             THEN run_shutdowns + (IF shut THEN 1 ELSE 0)
                             ELSE 0
    /\ waketime' = NextWake(eventtime)
    /\ phase' = "Armed"
    /\ UNCHANGED << ctorVars, winVars, cbVars, rateVars, eventtime,
                    config_writes, retried >>
    /\ UNCHANGED busVars

NextADC ==
    \/ \E st \in SampleTimes, sc \in 0 .. MaxCount, w \in Windows,
          rcc \in 0 .. MaxRangeCheck : setup_minmax(st, sc, w, rcc)
    \/ \E s \in CallbackSetups : setup_adc_callback(s[1], s[2])
    \/ build_config
    \/ \E now \in StartTimes : handle_ready(now)
    \/ \E late \in Lateness : timer_fires(late)
    \/ \E r \in ShortResponses : read_response_short(r)
    \/ \E r \in FullResponses, d \in ReceiveDelays :
          handle_timer(r, eventtime + d)

----------------------------------------------------------------------------
(* SoftwareI2C *)

\* 7-bit addresses, clock pins and payload bytes
Addrs == { 72, 80 }
SclPins == { "PA0", "PA1" }
PayloadBytes == { 3, 170 }
\* the sda_value argument of i2c_read; its default None is false like 0
SdaValues == { 0, 1 }

RECURSIVE SeqsUpTo(_, _)
SeqsUpTo(S, n) ==
    IF n = 0 THEN { << >> }
    ELSE LET shorter == SeqsUpTo(S, n - 1)
         IN  shorter \cup { Append(q, x) : q \in shorter, x \in S }

NoCall == [op |-> "none", self |-> 0, msg |-> << >>, length |-> 0,
           error |-> "None", result |-> << >>]

InitBus ==
    /\ pin_class = [p \in SclPins |-> 0]
    /\ insts = << >>
    /\ oid_count = 0
    /\ cq_count = 0
    /\ config_callbacks = << >>
    /\ config_cmds = << >>
    /\ connected = FALSE
    /\ level = << >>
    /\ call = NoCall
    /\ sent = << >>

Init == InitADC /\ InitBus

\* SoftwareI2C.__init__ (both pins on the one mcu)
construct(addr, scl_pin) ==
    /\ ~ connected
    /\ Len(insts) < MaxInst
    /\ LET self  == Len(insts) + 1
           first == pin_class[scl_pin] = 0
           main  == IF first THEN self ELSE pin_class[scl_pin]
           scl   == IF first THEN oid_count ELSE insts[main].scl_oid
           cq    == IF first THEN cq_count + 1 ELSE insts[main].cmd_queue
           oids  == IF first THEN oid_count + 1 ELSE oid_count
       IN  /\ pin_class' = [pin_class EXCEPT ![scl_pin] = main]
           /\ cq_count' = IF first THEN cq_count + 1 ELSE cq_count
           /\ config_callbacks' =
                  IF first THEN Append(config_callbacks, self)
                  ELSE config_callbacks
           /\ oid_count' = oids + 1
           /\ insts' = Append(insts,
                  [addr |-> addr * 2, update_pin_cmd |-> 0,
                   scl_pin |-> scl_pin, scl_main |-> main, scl_oid |-> scl,
                   cmd_queue |-> cq, sda_oid |-> oids])
           /\ config_cmds' = Append(config_cmds, [oid |-> oids, value |-> 1])
    /\ UNCHANGED << connected, level, call, sent >>
    /\ UNCHANGED engineVars

\* the mcu runs build_config of every registered instance, then configures
\* the pins: update_pin_cmd is the command bound to the instance's queue
mcu_connect ==
    /\ ~ connected
    /\ insts # << >>
    /\ connected' = TRUE
    /\ LET registered == { config_callbacks[k] : k \in DOMAIN config_callbacks }
           built == [k \in DOMAIN config_callbacks |->
                        [oid |-> insts[config_callbacks[k]].scl_oid,
                         value |-> 1]]
           cmds == config_cmds \o built
       IN  /\ insts' = [i \in DOMAIN insts |->
                  IF i \in registered
                  THEN [insts[i] EXCEPT !.update_pin_cmd = insts[i].cmd_queue]
                  ELSE insts[i]]
           /\ config_cmds' = cmds
           /\ level' = [o \in { cmds[k].oid : k \in DOMAIN cmds } |->
                  cmds[CHOOSE k \in DOMAIN cmds : cmds[k].oid = o].value]
    /\ UNCHANGED << pin_class, oid_count, cq_count, config_callbacks, call,
                    sent >>
    /\ UNCHANGED engineVars

\* one update_pin_cmd.send([oid, value]) through command object `via`,
\* made by the statement at source line `line`
Cmd(via, oid, v, line) == [via |-> via, oid |-> oid, value |-> v, line |-> line]

\* not not (data & (0x80 >> i)), as 0 or 1
\* a slip: the mask walks up from bit 0
DataBitLsbFirst(data, i) == (data \div (2 ^ i)) % 2

DataBit(data, i) == (data \div (2 ^ (7 - i))) % 2

\* a slip: the bit is put on the data line after the clock is raised
RECURSIVE SendBitsLate(_, _, _, _, _)
SendBitsLate(via, me, data, i, acc) ==
    IF i = 8 THEN acc
    ELSE LET sda_next == DataBit(data, i)
             a1 == [acc EXCEPT !.cmds = Append(@, Cmd(via, me.scl_oid, 1, 72))]
             a2 == IF a1.sda_last # sda_next
                   THEN [cmds |-> Append(a1.cmds,
                                    Cmd(via, me.sda_oid, sda_next, 70)),
                         sda_last |-> sda_next]
                   ELSE a1
             a3 == [a2 EXCEPT !.cmds = Append(@, Cmd(via, me.scl_oid, 0, 73))]
         IN  SendBitsLate(via, me, data, i + 1, a3)

\* the inner loop of i2c_write from bit i on; acc = [cmds, sda_last]
RECURSIVE SendBits(_, _, _, _, _)
SendBits(via, me, data, i, acc) ==
    IF i = 8 THEN acc
    ELSE LET sda_next == DataBit(data, i)
             a1 == IF acc.sda_last # sda_next
                   THEN [cmds |-> Append(acc.cmds,
                                    Cmd(via, me.sda_oid, sda_next, 70)),
                         sda_last |-> sda_next]
                   ELSE acc
             a2 == [a1 EXCEPT !.cmds = @ \o
                       << Cmd(via, me.scl_oid, 1, 72),
                          Cmd(via, me.scl_oid, 0, 73) >>]
         IN  SendBits(via, me, data, i + 1, a2)

\* the outer loop of i2c_write from byte k of msg on
RECURSIVE SendBytes(_, _, _, _, _)
SendBytes(via, me, msg, k, acc) ==
    IF k > Len(msg) THEN acc
    ELSE LET a1 == SendBits(via, me, msg[k], 0, acc)
             a2 == [a1 EXCEPT !.cmds = @ \o
                       << Cmd(via, me.scl_oid, 1, 75),
                          Cmd(via, me.scl_oid, 0, 76) >>]
         IN  SendBytes(via, me, msg, k + 1, a2)

\* a slip: the stop condition without first pulling the data line low
I2cWriteCmdsBareStop(me, msg) ==
    LET via   == insts[me.scl_main].update_pin_cmd
        full  == << me.addr >> \o msg
        start == << Cmd(via, me.sda_oid, 0, 60), Cmd(via, me.scl_oid, 0, 61) >>
        body  == SendBytes(via, me, full, 1, [cmds |-> start, sda_last |-> 0])
        stop  == << Cmd(via, me.scl_oid, 1, 80), Cmd(via, me.sda_oid, 1, 81) >>
    IN  body.cmds \o stop

\* the commands i2c_write(msg) of instance me sends
I2cWriteCmds(me, msg) ==
    LET via   == insts[me.scl_main].update_pin_cmd
        full  == << me.addr >> \o msg
        start == << Cmd(via, me.sda_oid, 0, 60), Cmd(via, me.scl_oid, 0, 61) >>
        body  == SendBytes(via, me, full, 1, [cmds |-> start, sda_last |-> 0])
        stop  == (IF body.sda_last # 0
                  THEN << Cmd(via, me.sda_oid, 0, 79) >> ELSE << >>)
                 \o << Cmd(via, me.scl_oid, 1, 80),
                       Cmd(via, me.sda_oid, 1, 81) >>
    IN  body.cmds \o stop

\* the value of the last of the first j commands of q addressed to oid, or
\* `was` when there is none
RECURSIVE LastDriven(_, _, _, _)
LastDriven(q, j, oid, was) ==
    IF j = 0 THEN was
    ELSE IF q[j].oid = oid THEN q[j].value
    ELSE LastDriven(q, j - 1, oid, was)

\* the levels after the mcu has executed the commands q in order
Drive(lv, q) == [o \in DOMAIN lv |-> LastDriven(q, Len(q), o, lv[o])]

i2c_write(self, msg) ==
    /\ connected
    /\ self \in DOMAIN insts
    /\ LET cmds == I2cWriteCmds(insts[self], msg)
       IN  /\ sent' = cmds
           /\ level' = Drive(level, cmds)
           /\ call' = [op |-> "i2c_write", self |-> self, msg |-> msg,
                       length |-> 0, error |-> "None", result |-> << >>]
    /\ UNCHANGED << pin_class, insts, oid_count, cq_count, config_callbacks,
                    config_cmds, connected >>
    /\ UNCHANGED engineVars

\* x | 0x01
OrOne(x) == x + (1 - (x % 2))

\* the bit loop of one received byte from bit i on: data |= 1 << (7 - i)
\* whenever sda_value is true
RECURSIVE RecvBits(_, _, _)
RecvBits(sda_value, i, data) ==
    IF i = 8 THEN data
    ELSE RecvBits(sda_value, i + 1,
             IF sda_value = 1
             THEN data + (1 - DataBit(data, i)) * (2 ^ (7 - i))
             ELSE data)

\* the 16 clock commands of the bit loop of one received byte
RecvBitCmds(via, me) ==
    [n \in 1 .. 16 |->
        IF n % 2 = 1 THEN Cmd(via, me.scl_oid, 1, 97)
        ELSE Cmd(via, me.scl_oid, 0, 102)]

\* the receive loop of i2c_read from byte k on; acc = [cmds, recv_data]
RECURSIVE RecvBytes(_, _, _, _, _, _)
RecvBytes(via, me, length, sda_value, k, acc) ==
    IF k > length THEN acc
    ELSE LET recv == Append(acc.recv_data, RecvBits(sda_value, 0, 0))
             ack  == (IF Len(recv) < length
                      THEN << Cmd(via, me.sda_oid, 0, 108) >> ELSE << >>)
                     \o << Cmd(via, me.scl_oid, 1, 109),
                           Cmd(via, me.scl_oid, 0, 110) >>
         IN  RecvBytes(via, me, length, sda_value, k + 1,
                 [cmds |-> acc.cmds \o RecvBitCmds(via, me) \o ack,
                  recv_data |-> recv])

\* i2c_read of an instance whose own update_pin_cmd is set
\* a slip: the read returns without releasing the lines
I2cReadRunHeld(me, length, sda_value) ==
    LET via   == insts[me.scl_main].update_pin_cmd
        prep  == << Cmd(me.update_pin_cmd, me.sda_oid, 1, 85) >>
        addr  == I2cWriteCmds(me, << OrOne(me.addr) >>)
        body  == RecvBytes(via, me, length, sda_value, 1,
                     [cmds |-> << >>, recv_data |-> << >>])
    IN  [cmds |-> prep \o addr \o body.cmds,
         recv_data |-> body.recv_data]

I2cReadRun(me, length, sda_value) ==
    LET via   == insts[me.scl_main].update_pin_cmd
        prep  == << Cmd(me.update_pin_cmd, me.sda_oid, 1, 85) >>
        addr  == I2cWriteCmds(me, << OrOne(me.addr) >>)
        body  == RecvBytes(via, me, length, sda_value, 1,
                     [cmds |-> << >>, recv_data |-> << >>])
        stop  == << Cmd(via, me.sda_oid, 1, 113),
                    Cmd(via, me.scl_oid, 1, 116),
                    Cmd(via, me.sda_oid, 1, 117) >>
    IN  [cmds |-> prep \o addr \o body.cmds \o stop,
         recv_data |-> body.recv_data]

\* i2c_read: self.update_pin_cmd is None unless build_config ran for self,
\* and None.send raises AttributeError before anything is sent
i2c_read(self, length, sda_value) ==
    /\ connected
    /\ self \in DOMAIN insts
    /\ IF insts[self].update_pin_cmd = 0
       THEN /\ sent' = << >>
            /\ level' = level
            /\ call' = [op |-> "i2c_read", self |-> self, msg |-> << >>,
                        length |-> length, error |-> "AttributeError",
                        result |-> << >>]
       ELSE LET run == I2cReadRun(insts[self], length, sda_value)
            IN  /\ sent' = run.cmds
                /\ level' = Drive(level, run.cmds)
                /\ call' = [op |-> "i2c_read", self |-> self,
                            msg |-> << >>, length |-> length,
                            error |-> "None", result |-> run.recv_data]
    /\ UNCHANGED << pin_class, insts, oid_count, cq_count, config_callbacks,
                    config_cmds, connected >>
    /\ UNCHANGED engineVars

NextBus ==
    \/ \E addr \in Addrs, pin \in SclPins : construct(addr, pin)
    \/ mcu_connect
    \/ \E self \in 1 .. MaxInst, msg \in SeqsUpTo(PayloadBytes, MaxMsgLen) :
          i2c_write(self, msg)
    \/ \E self \in 1 .. MaxInst, length \in 1 .. MaxReadLen,
          v \in SdaValues : i2c_read(self, length, v)

SpecADC == Init /\ [][NextADC]_vars

SpecBus == Init /\ [][NextBus]_vars

\* the engine with the constructor's own window and callback, or a window
\* of 1 .. MaxCount samples at the fastest rate set by a client
NextTick ==
    \/ \E sc \in 1 .. MaxCount :
          setup_minmax(Rat(1, 128), sc, << Rat(0, 1), Rat(1, 2) >>, 1)
    \/ build_config
    \/ \E now \in StartTimes : handle_ready(now)
    \/ \E late \in Lateness : timer_fires(late)
    \/ \E r \in ShortResponses : read_response_short(r)
    \/ \E r \in FullResponses, d \in ReceiveDelays :
          handle_timer(r, eventtime + d)

\* the transport does not answer short for ever: a pass of _read_response
\* that gets its 2 bytes is eventually made
SpecTickFair ==
    /\ Init /\ [][NextTick]_vars
    /\ WF_vars(\E r \in FullResponses, d \in ReceiveDelays :
                  handle_timer(r, eventtime + d))

\* configuration time alone, for every gain the config file may carry
InitCfg == (\E g \in GainChoices : Constructed(g)) /\ InitBus

NextCfg ==
    \/ \E st \in SampleTimes, sc \in 0 .. MaxCount, w \in Windows,
          rcc \in 0 .. MaxRangeCheck : setup_minmax(st, sc, w, rcc)
    \/ \E s \in CallbackSetups : setup_adc_callback(s[1], s[2])
    \/ build_config
    \/ \E now \in StartTimes : handle_ready(now)

SpecCfg == InitCfg /\ [][NextCfg]_vars

----------------------------------------------------------------------------
(* Properties of the acquisition engine *)

RECURSIVE SumSeq(_)
SumSeq(q) == IF q = << >> THEN 0 ELSE Head(q) + SumSeq(Tail(q))

\* v lies in [minval, maxval]
InWindow(v) ==
    /\ minval.num * v.den <= v.num * minval.den
    /\ v.num * maxval.den <= maxval.num * v.den

Sampling == phase \in { "Armed", "Reading" }

\* C1: with range_check_count = K >= 1, while a run of consecutive
\* out-of-range completed cycles is shorter than K no shutdown was invoked in
\* it, when it is exactly K long exactly one shutdown was invoked in it (so
\* at its K-th cycle), ErrorCount is the length of the run, and an in-range
\* cycle ends the run and leaves ErrorCount at 0.
RangeEscalation ==
    (Sampling /\ range_check_count >= 1) =>
        /\ (nticks >= sample_count) => (run_len = 0 <=> InWindow(last_value))
        /\ (run_len < range_check_count) => run_shutdowns = 0
        /\ (run_len = range_check_count) => run_shutdowns = 1
        /\ (run_len <= range_check_count) => error_count = run_len

\* a fresh run of K = 2 violations after an in-range cycle trips the shutdown
RangeEscalationWitness ==
    /\ phase = "Armed"
    /\ range_check_count = 2
    /\ sample_count = 1
    /\ nticks = 4
    /\ run_len = 2
    /\ run_shutdowns = 1
    /\ shutdown_called

\* C2: with range_check_count = 0 invoke_shutdown is never called.
DisabledNeverShutsDown == (range_check_count = 0) => ~ shutdown_called

\* C3: LastResult is the average of the latest N readings that ended on an
\* N-th tick (and the initial 0 before the first), stamped with that tick's
\* receive time; the accumulator holds the readings taken since, so it is
\* zero right after every N-th tick.
AccumulationCorrect ==
    (Sampling /\ sample_count >= 1) =>
        /\ Len(window) = nticks % sample_count
        /\ value = SumSeq(window)
        /\ state = Len(window)
        /\ (nticks % sample_count = 0) => (value = 0 /\ state = 0)
        /\ IF nticks < sample_count
           THEN last_value = Rat(0, 1) /\ last_time = 0
           ELSE /\ Len(last_window) = sample_count
                /\ last_value = Rat(SumSeq(last_window), sample_count * norm)
                /\ last_time = last_window_time

\* two cycles of N = 2 were completed, the second averaging -128 and 16384
AccumulationWitness ==
    /\ phase = "Armed"
    /\ sample_count = 2
    /\ nticks = 4
    /\ last_window = << -128, 16384 >>
    /\ last_value = Rat(16256, 2 * norm)
    /\ value = 0
    /\ state = 0

\* big-endian signed 16-bit value of two bytes
Signed16(hi, lo) == hi * 256 + lo - (IF hi >= 128 THEN 65536 ELSE 0)

\* C4: within a tick a short response leaves the accumulator, ErrorCount,
\* LastResult and the outputs alone and does not end the tick; the response
\* that ends the tick has at least 2 bytes and adds exactly one sample, the
\* value of its first two bytes.
TransientRetry ==
    [][ (phase = "Reading") =>
          \/ /\ phase' = "Reading"
             /\ Len(response') < 2
             /\ UNCHANGED << value, state, error_count, last_value, last_time,
                             shutdown_called, cb_called, nticks, waketime >>
          \/ /\ phase' = "Armed"
             /\ Len(response') >= 2
             /\ nticks' = nticks + 1
             /\ state' = (IF state + 1 < sample_count THEN state + 1 ELSE 0)
             /\ (IF state + 1 < sample_count
                 THEN value' ELSE last_value'.num)
                   = value + Signed16(response'[1], response'[2]) ]_vars

\* a tick that saw a short response ended on a 4-byte response whose first
\* two bytes (-128) were the one sample added
TransientRetryWitness ==
    /\ phase = "Armed"
    /\ retried
    /\ nticks = 1
    /\ response = << 255, 128, 64, 0 >>
    /\ value = -128
    /\ state = 1
    /\ error_count = 0

\* C5: the callback is invoked only in ticks that complete a cycle, and two
\* successive invocations are at least report_time apart in eventtime.
CallbackGating ==
    /\ (cb_called /\ phase = "Armed") =>
           (sample_count >= 1 /\ nticks % sample_count = 0)
    /\ (cb_before_time >= 0) => (cb_prev_time - cb_before_time >= report_time)

\* two invocations with a completed cycle between them that was not reported
CallbackGatingWitness ==
    /\ phase = "Armed"
    /\ cb_called
    /\ report_time = 16
    /\ sample_count = 1
    /\ rate = 16
    /\ nticks = 3
    /\ cb_before_time >= 0
    /\ cb_prev_time - cb_before_time >= 16

\* the requested rate 1/sample_time, its band, and the constant of a rate
RequestedRate(st) == Rat(st.den, st.num)
Band(f) ==
    IF f.num < 12 * f.den THEN 8
    ELSE IF f.num < 24 * f.den THEN 16
    ELSE IF f.num < 80 * f.den THEN 32
    ELSE 128
MaxValueOf(r) ==
    CASE r = 8 -> 32768 [] r = 16 -> 16384 [] r = 32 -> 8192 [] r = 128 -> 2048
      [] OTHER -> -1
\* C10: _build_config with sample_count >= 1 selects 8, 16, 32 or 128 by the
\* bands [0,12), [12,24), [24,80), [80,..) of 1/sample_time and sets
\* sample_time to 1/rate and the constant to the table entry of the rate;
\* from then on the three agree.
RateSelection ==
    /\ [][ (phase = "Idle" /\ phase' = "Built" /\ sample_count >= 1) =>
             /\ rate' = Band(RequestedRate(sample_time))
             /\ sample_time' = Rat(1, rate')
             /\ norm' = MaxValueOf(rate') ]_vars
    /\ [] ( (phase # "Idle" /\ sample_count >= 1) =>
             /\ rate \in { 8, 16, 32, 128 }
             /\ sample_time = Rat(1, rate)
             /\ norm = MaxValueOf(rate) )

\* a request in the band [12, 24) was configured as rate 16, period 1/16
\* and constant 16384
RateSelectionWitness ==
    /\ phase = "Built"
    /\ rate = 16
    /\ sample_time = Rat(1, 16)
    /\ norm = 16384


----------------------------------------------------------------------------
(* Properties of the bus master.  They read the commands of the latest call *)
(* (sent) against the two lines of the calling instance, both high before  *)
(* the call.                                                                *)

Caller == insts[call.self]
IsSda(c) == c.oid = Caller.sda_oid
IsScl(c) == c.oid = Caller.scl_oid

\* the level of output oid just before command j of sent, idle-high before
\* the first
Before(j, oid) == LastDriven(sent, j - 1, oid, 1)

\* commands that raise / lower the clock line
ClockRises == { j \in DOMAIN sent :
                  IsScl(sent[j]) /\ sent[j].value = 1
                  /\ Before(j, Caller.scl_oid) = 0 }
ClockFalls == { j \in DOMAIN sent :
                  IsScl(sent[j]) /\ sent[j].value = 0
                  /\ Before(j, Caller.scl_oid) = 1 }
\* a pulse: a rise whose next clock command is a fall
ClockPulses ==
    { j \in ClockRises :
        \E f \in ClockFalls :
            /\ f > j
            /\ \A k \in j + 1 .. f - 1 : ~ IsScl(sent[k]) }

\* C6: an i2c_write starts with data low then clock low, makes 9 clock
\* pulses per byte of address + payload, sends a data-line command only
\* when it changes the line's level, and ends by raising the clock and then
\* the data line, leaving both lines high.
WriteFraming ==
    (call.op = "i2c_write") =>
        LET n == Len(sent)
        IN  /\ n >= 4
            /\ \A j \in DOMAIN sent : IsSda(sent[j]) \/ IsScl(sent[j])
            /\ IsSda(sent[1]) /\ sent[1].value = 0
            /\ IsScl(sent[2]) /\ sent[2].value = 0
            /\ Cardinality(ClockPulses) = 9 * (1 + Len(call.msg))
            /\ \A j \in DOMAIN sent :
                  IsSda(sent[j]) => sent[j].value # Before(j, Caller.sda_oid)
            /\ IsScl(sent[n - 1]) /\ sent[n - 1].value = 1
            /\ Before(n - 1, Caller.scl_oid) = 0
            /\ IsSda(sent[n]) /\ sent[n].value = 1
            /\ Before(n, Caller.sda_oid) = 0
            /\ level[Caller.sda_oid] = 1 /\ level[Caller.scl_oid] = 1

\* the write of address byte 0xA0 and payload [0x03]: 46 commands
WriteFramingWitness ==
    /\ call.op = "i2c_write"
    /\ Caller.addr = 160
    /\ call.msg = << 3 >>
    /\ Len(sent) = 46
    /\ Cardinality(ClockPulses) = 18

\* the clock commands of the nested i2c_write of an i2c_read that present a
\* bit or an acknowledge slot, in order
AddressSlots == { j \in DOMAIN sent : sent[j].line \in { 72, 75 } }
SlotRank(j) == Cardinality({ e \in AddressSlots : e <= j })
\* the data-line level presented at the r-th slot
SlotBit(r) ==
    Before(CHOOSE j \in AddressSlots : SlotRank(j) = r, Caller.sda_oid)
RECURSIVE SlotsValue(_, _)
SlotsValue(r, acc) ==
    IF r > 8 THEN acc ELSE SlotsValue(r + 1, 2 * acc + SlotBit(r))

ReadDone == call.op = "i2c_read" /\ call.error = "None"

\* C7: in an i2c_read exactly one byte (8 bits and its acknowledge slot) is
\* clocked out before the receive phase, and it is the address byte with
\* the read flag set.
ReadAddressing ==
    ReadDone =>
        /\ Cardinality(AddressSlots) = 9
        /\ SlotsValue(1, 0) = Caller.addr + 1

\* the clock-high commands of the acknowledge slots of the receive phase
AckSlots == { j \in DOMAIN sent : sent[j].line = 109 }
AckRank(j) == Cardinality({ e \in AckSlots : e <= j })

\* C8: in an i2c_read of length L the data line is low during the
\* acknowledge pulse after every byte but the last, and high during the one
\* after the last.
ReadAcknowledge ==
    ReadDone =>
        /\ Cardinality(AckSlots) = call.length
        /\ \A j \in AckSlots :
              Before(j, Caller.sda_oid)
                  = (IF AckRank(j) < call.length THEN 0 ELSE 1)

SamePin(i, j) == insts[i].scl_pin = insts[j].scl_pin
Owner(i) == CHOOSE o \in DOMAIN insts :
                SamePin(o, i) /\ \A j \in DOMAIN insts : SamePin(j, i) => o <= j

\* C9: of the instances on one clock pin the first constructed is the
\* owner, only owners register the clock configuration, every instance uses
\* its owner's clock oid and queue, and every i2c_write and i2c_read of any
\* instance completes with all its commands sent through the owner's
\* update command.
SharedClock ==
    connected =>
        /\ \A i \in DOMAIN insts :
              /\ insts[i].scl_main = Owner(i)
              /\ insts[i].scl_oid = insts[Owner(i)].scl_oid
              /\ insts[i].cmd_queue = insts[Owner(i)].cmd_queue
              /\ insts[Owner(i)].update_pin_cmd # 0
        /\ { config_callbacks[k] : k \in DOMAIN config_callbacks }
               = { Owner(i) : i \in DOMAIN insts }
        /\ Len(config_callbacks) =
               Cardinality({ Owner(i) : i \in DOMAIN insts })
        /\ (call.op # "none") =>
              /\ call.error = "None"
              /\ sent # << >>
              /\ \A j \in DOMAIN sent :
                    sent[j].via = insts[Owner(call.self)].update_pin_cmd

----------------------------------------------------------------------------
(***************************************************************************)
(* Construction and start-up, under SpecCfg.                               *)
(***************************************************************************)

SupportedGains == {1, 2, 4, 8}

Constructing == phase = "ConfigError"

\* C11: a gain of 1, 2, 4 or 8 constructs the sensor, with everything
\* registered and the gain code log2(gain) in the low two bits of the
\* configuration byte; any other gain ends construction in a configuration
\* error with nothing registered, nothing written and no timer, and the
\* configured value is kept as it was, never replaced by a supported one.
GainValidation ==
    /\ gain \in GainChoices
    /\ gain \in SupportedGains =>
          /\ ~ Constructing
          /\ registrations = Registrations
          /\ phase = "Armed" => 2 ^ (config_writes[1][1] % 4) = gain
    /\ gain \notin SupportedGains =>
          /\ Constructing
          /\ registrations = {}
          /\ config_writes = << >>
          /\ waketime = 0

GainValidationWitness == gain = 3 /\ Constructing /\ registrations = {}

GainCode(g) == CHOOSE c \in 0 .. 3 : 2 ^ c = g

RateCode(r) == CASE r = 8 -> 3 [] r = 16 -> 2 [] r = 32 -> 1 [] r = 128 -> 0

Started == phase \notin { "Idle", "Built", "ConfigError" }

\* C15: once the ready handler has run, the configuration register has been
\* written exactly once, with (rate_code << 2) | gain_code for the rate the
\* requested period selects, and the timer is armed; this for every window
\* handed to setup_minmax, a sample_count of 0 included.
ReadyConfigures ==
    Started =>
        /\ phase = "Armed"
        /\ Len(config_writes) = 1
        /\ rate \in DOMAIN ADS1100_SAMPLE_RATE_TABLE
        /\ config_writes[1] = << RateCode(rate) * 4 + GainCode(gain) >>

----------------------------------------------------------------------------
(***************************************************************************)
(* The wire during a call, under SpecBus.                                  *)
(***************************************************************************)

\* the bytes the i2c_write inside the latest call transmits
Transmitted ==
    IF call.op = "i2c_write" THEN << Caller.addr >> \o call.msg
    ELSE << Caller.addr, Caller.addr + 1 >>

CallDone == call.op \in { "i2c_write", "i2c_read" } /\ call.error = "None"

\* the clock-high commands of the bit slots of the write, in order
BitSlots == { j \in DOMAIN sent : sent[j].line = 72 }
BitRank(j) == Cardinality({ e \in BitSlots : e <= j })

\* C12: in every i2c_write the k-th clock rise of each transmitted byte
\* finds the data line at bit (8 - k) of that byte, most significant bit
\* first, and every data-line command of the bit loop changes the line: the
\* tracked sda_last is the real level throughout, byte boundaries and
\* acknowledge slots included.
WriteBitOrder ==
    CallDone =>
        /\ Cardinality(BitSlots) = 8 * Len(Transmitted)
        /\ \A j \in BitSlots :
              LET b == ((BitRank(j) - 1) \div 8) + 1
                  k == ((BitRank(j) - 1) % 8) + 1
              IN  /\ j \in ClockRises
                  /\ Before(j, Caller.sda_oid)
                        = (Transmitted[b] \div (2 ^ (8 - k))) % 2
        /\ \A j \in DOMAIN sent :
              sent[j].line = 70 => sent[j].value # Before(j, Caller.sda_oid)

\* address byte 0x90 and payload [0xAA]: sixteen bit slots, the ninth high
WriteBitOrderWitness ==
    /\ call.op = "i2c_write" /\ call.error = "None"
    /\ Caller.addr = 144
    /\ call.msg = << 170 >>
    /\ Cardinality(BitSlots) = 16
    /\ \E j \in BitSlots : BitRank(j) = 9 /\ Before(j, Caller.sda_oid) = 1

\* commands that change the level of the line they drive
Transitions == { j \in DOMAIN sent : sent[j].value # Before(j, sent[j].oid) }

\* the data line rising / falling while the clock line is high
StopEdges == { j \in Transitions :
                 /\ IsSda(sent[j]) /\ sent[j].value = 1
                 /\ Before(j, Caller.scl_oid) = 1 }
StartEdges == { j \in Transitions :
                  /\ IsSda(sent[j]) /\ sent[j].value = 0
                  /\ Before(j, Caller.scl_oid) = 1 }

\* C13: an i2c_read contains exactly one stop condition, it comes after the
\* last acknowledge slot, and no line changes level after it.
ReadStop ==
    ReadDone =>
        /\ Cardinality(StopEdges) = 1
        /\ \A j \in StopEdges :
              /\ \A a \in AckSlots : a < j
              /\ \A t \in Transitions : t <= j

\* the clock commands of the receive phase: bit slots and acknowledge slots
ReceiveHighs == { j \in DOMAIN sent : sent[j].line \in { 97, 109 } }
ReceiveLows  == { j \in DOMAIN sent : sent[j].line \in { 102, 110 } }

\* C14: in an i2c_read of length L every clock-high command of the receive
\* phase finds the clock low and every clock-low command finds it high, so
\* the receive phase makes exactly 9 * L clock pulses: 8 * L bit slots and
\* L acknowledge slots.
ReadClocking ==
    ReadDone =>
        /\ Cardinality(ReceiveHighs) = 9 * call.length
        /\ Cardinality(ReceiveLows) = 9 * call.length
        /\ ReceiveHighs \subseteq ClockRises
        /\ ReceiveLows \subseteq ClockFalls
        /\ Cardinality(ReceiveHighs \cap ClockPulses) = 9 * call.length

AllHigh == \A o \in DOMAIN level : level[o] = 1

\* from two high lines, the first command of sent that lowers a line lowers
\* the data line: the first change is a start condition
GenuineStart ==
    \E j \in DOMAIN sent :
        /\ IsSda(sent[j]) /\ sent[j].value = 0
        /\ \A k \in 1 .. j - 1 : sent[k].value = 1

\* C19: between calls every configured line is high, whatever completed
\* i2c_write and i2c_read calls came before, and each call therefore begins
\* with both of its lines high and makes as its first change a fall of the
\* data line while the clock is high.
IdleBetween ==
    /\ [] AllHigh
    /\ [][ ((call' # call \/ sent' # sent) /\ CallDone')
              => /\ level[Caller'.sda_oid] = 1
                 /\ level[Caller'.scl_oid] = 1
                 /\ GenuineStart' ]_vars

\* a two-byte read, whose first acknowledge pulls the data line low
IdleBetweenWitness ==
    /\ ReadDone /\ call.length = 2
    /\ \E j \in AckSlots : Before(j, Caller.sda_oid) = 0
    /\ AllHigh
    /\ GenuineStart

\* the data-line commands of a call that change its level
DataChanges == { j \in Transitions : IsSda(sent[j]) }

\* C20: in every i2c_write and i2c_read the data line changes level under
\* a high clock only as the fall of the start condition or the rise of a
\* stop condition; the changes made for a data bit, before the stop, for an
\* acknowledge and for the release all happen under a low clock.
DataStability ==
    CallDone =>
        \A j \in DataChanges :
            IF Before(j, Caller.scl_oid) = 1
            THEN \/ sent[j].value = 0 /\ sent[j].line = 60
                 \/ sent[j].value = 1 /\ sent[j].line \in { 81, 117 }
            ELSE sent[j].line \in { 70, 79, 108, 113 }

\* a two-byte read: bit changes in the address bytes, an acknowledge pulled
\* low and the release after it
DataStabilityWitness ==
    /\ ReadDone /\ call.length = 2
    /\ \E j \in DataChanges : sent[j].line = 70
    /\ \E j \in DataChanges : sent[j].line = 108
    /\ \E j \in DataChanges : sent[j].line = 113
    /\ \E j \in StartEdges : sent[j].line = 60

----------------------------------------------------------------------------
(***************************************************************************)
(* The return of a tick, under SpecADC.                                    *)
(***************************************************************************)

TickReturns == phase = "Reading" /\ phase' # "Reading"

\* C16: every tick that returns leaves the timer armed at the time of the
\* tick plus the period 1/rate, later than the tick itself: in the middle of
\* a cycle, at an in-range or out-of-range end of cycle, in the tick that
\* calls invoke_shutdown and in the ticks after it.
UnconditionalRearm ==
    [][ TickReturns =>
          /\ phase' = "Armed"
          /\ waketime' * rate = eventtime * rate + TicksPerSecond
          /\ waketime' > eventtime
          /\ eventtime' = eventtime ]_vars

\* the tick after a tick that called invoke_shutdown has returned, calling
\* it again, and the timer is armed one period (1/128 s) after it
UnconditionalRearmWitness ==
    /\ phase = "Armed"
    /\ run_shutdowns >= 2
    /\ shutdown_called
    /\ rate = 128
    /\ nticks >= 2
    /\ waketime = eventtime + 1

\* C17: a tick that is not the sample_count-th of its cycle adds its sample
\* to value, adds one to state and changes nothing else of the object: the
\* result, its timestamp, error_count and the time of the last callback
\* stay, and neither the callback nor invoke_shutdown is called in it.
MidAccumulationFrame ==
    [][ (TickReturns /\ (nticks + 1) % sample_count # 0) =>
          /\ value' = value + Signed16(response'[1], response'[2])
          /\ state' = state + 1
          /\ state' < sample_count
          /\ UNCHANGED << last_value, last_time, error_count,
                          last_callback_time >>
          /\ UNCHANGED << ctorVars, winVars, cbVars, rateVars,
                          config_writes, cb_args >>
          /\ ~ shutdown_called' /\ ~ cb_called' ]_vars

\* the first tick of the second cycle of two samples: the result of the
\* first cycle is still the last result
MidAccumulationFrameWitness ==
    /\ phase = "Armed"
    /\ sample_count = 2
    /\ nticks = 3
    /\ state = 1
    /\ value # 0
    /\ last_window # << >>
    /\ last_time = last_window_time
    /\ last_time > 0

----------------------------------------------------------------------------
(***************************************************************************)
(* The retry loop of a tick, under SpecTickFair.                           *)
(***************************************************************************)

InTick == phase = "Reading"

\* C18: when a response of 2 bytes or more eventually comes, every tick
\* eventually returns with the timer armed; until it comes the tick stays
\* in its read loop, where another short response is always accepted, one
\* more retry is all it causes, and no other tick, range check or callback
\* runs.
TickTermination ==
    /\ InTick ~> (phase = "Armed")
    /\ [] (InTick =>
             /\ ENABLED (\E r \in ShortResponses : read_response_short(r))
             /\ ~ ENABLED (\E late \in Lateness : timer_fires(late)))
    /\ [][ (InTick /\ Len(response') < 2) =>
             /\ InTick'
             /\ UNCHANGED << nticks, waketime, eventtime, accVars, resVars,
                             obsVars >> ]_vars

\* a second tick has returned after a short response
TickTerminationWitness ==
    /\ phase = "Armed"
    /\ nticks >= 2
    /\ retried
    /\ Len(response) >= 2
    /\ waketime > eventtime

=============================================================================
